---- MODULE Spec2Model ----
(***************************************************************************)
(* A model of binfield (src/binfield/binfield.py): the BinField view of    *)
(* an integer, its classes (size, mask, mapping), the children that        *)
(* indexing links back to their parent, and the writes that propagate up   *)
(* the parent chain.                                                       *)
(***************************************************************************)
EXTENDS Integers, Sequences, FiniteSets, TLC

(***************************************************************************)
(* Python values.                                                          *)
(***************************************************************************)

\* Python's None where an int is optional (_size_, _mask_, slice.start, slice.stop).
None == -1000

\* Truth value of an optional int: None and 0 are false.
Truthy(x) == x # None /\ x # 0

RECURSIVE Pow2(_)
Pow2(n) == IF n <= 0 THEN 1 ELSE 2 * Pow2(n - 1)

\* x & y on Python's unbounded two's complement integers.
RECURSIVE And(_, _)
And(x, y) ==
    IF x = 0 \/ y = 0 THEN 0
    ELSE IF x = -1 THEN y
    ELSE IF y = -1 THEN x
    ELSE (x % 2) * (y % 2) + 2 * And(x \div 2, y \div 2)

\* x | y
Or(x, y) == x + y - And(x, y)

\* x ^ y
Xor(x, y) == x + y - 2 * And(x, y)

\* ~x
Not(x) == -x - 1

\* x << n, for n >= 0
Shl(x, n) == x * Pow2(n)

\* x >> n, for n >= 0 (arithmetic: rounds towards minus infinity)
Shr(x, n) == x \div Pow2(n)

\* int.bit_length(): the bits of the magnitude
RECURSIVE BitLength(_)
BitLength(x) ==
    IF x = 0 THEN 0
    ELSE IF x < 0 THEN BitLength(-x)
    ELSE 1 + BitLength(x \div 2)

\* A slice object.
Slice(a, b) == [kind |-> "slice", a |-> a, b |-> b, step |-> None, f |-> ""]

\* A (start, stop) tuple or list.
Pair(a, b) == [kind |-> "pair", a |-> a, b |-> b, step |-> None, f |-> ""]

\* An int used as a key.
Index(i) == [kind |-> "int", a |-> i, b |-> None, step |-> None, f |-> ""]

\* A str used as a key.
Name(s) == [kind |-> "name", a |-> None, b |-> None, step |-> None, f |-> s]

_is_valid_slice(obj) ==
    /\ obj.kind = "slice"
    /\ obj.step = None
    /\ (obj.a # None /\ obj.b # None) => (0 <= obj.a /\ obj.a < obj.b)

_is_valid_slice_mapping(obj) ==
    /\ obj.kind = "pair"
    /\ obj.a # None /\ obj.b # None
    /\ 0 <= obj.a /\ obj.a < obj.b

_get_mask(start, end) == Pow2(end) - Pow2(start)

(***************************************************************************)
(* Mappings: a dict is a sequence of entries in insertion order.  An entry *)
(* holds its key and its value: an int (a), a slice (a, b, step), a        *)
(* (start, stop) pair (a, b), or a nested dict (sub) whose "_index_" is    *)
(* the pair (a, b) when hasIndex.                                          *)
(***************************************************************************)

FInt(n, i) ==
    [name |-> n, kind |-> "int", a |-> i, b |-> None, step |-> None,
     hasIndex |-> FALSE, sub |-> <<>>]

FSlice(n, a, b) ==
    [name |-> n, kind |-> "slice", a |-> a, b |-> b, step |-> None,
     hasIndex |-> FALSE, sub |-> <<>>]

FPair(n, a, b) ==
    [name |-> n, kind |-> "pair", a |-> a, b |-> b, step |-> None,
     hasIndex |-> FALSE, sub |-> <<>>]

FDict(n, a, b, sub) ==
    [name |-> n, kind |-> "dict", a |-> a, b |-> b, step |-> None,
     hasIndex |-> TRUE, sub |-> sub]

\* The names that start with an underscore (protected, sunder and dunder names).
UnderscoreNames == {"_key_", "__dunder__", "_index_"}

\* _mapping_filter(key, val), for a str key other than "_index_"
RECURSIVE _mapping_filter(_)
_mapping_filter(e) ==
    /\ e.name \notin UnderscoreNames
    /\ \/ e.kind = "int"
       \/ _is_valid_slice(e)
       \/ _is_valid_slice_mapping(e)
       \/ /\ e.kind = "dict"
          /\ \A i \in 1..Len(e.sub) : _mapping_filter(e.sub[i])

\* _get_start_index(src): the sort key of an item of the mapping
_get_start_index(e) == e.a

\* sorted(mapping.items(), key=_get_start_index): stable, ascending
RECURSIVE InsertSorted(_, _)
InsertSorted(sorted, e) ==
    IF sorted = <<>> THEN <<e>>
    ELSE IF _get_start_index(sorted[Len(sorted)]) <= _get_start_index(e)
         THEN Append(sorted, e)
         ELSE Append(InsertSorted(SubSeq(sorted, 1, Len(sorted) - 1), e),
                     sorted[Len(sorted)])

RECURSIVE SortByStart(_)
SortByStart(items) ==
    IF items = <<>> THEN <<>>
    ELSE InsertSorted(SortByStart(SubSeq(items, 1, Len(items) - 1)),
                      items[Len(items)])

\* check_update_mapping_mask(mask) of _prepare_mapping: None on an intersection
check_update_mapping_mask(mapping_mask, mask) ==
    IF And(mapping_mask, mask) # 0 THEN None ELSE Or(mapping_mask, mask)

\* An exception of _prepare_mapping.  why tells the two IndexErrors apart:
\* "intersection" ("Mapping key ... has intersection with other keys by mask
\* <bits>") and "after non-ending" ("Mapping after non-ending slice index!");
\* raw is the caller's dict as the call left it.
Raised(e, why, bits, raw) ==
    [err |-> e, mapping |-> <<>>, why |-> why, bits |-> bits, raw |-> raw]

Failed(e, raw) == Raised(e, "", 0, raw)

\* mapping.pop("_index_") of the nested call on the dict that is the value of
\* key name: the caller's dict loses its "_index_", and holds what the nested
\* call left of its items.
PopIndex(raw, name, sub) ==
    [i \in DOMAIN raw |->
        IF raw[i].name = name THEN [raw[i] EXCEPT !.hasIndex = FALSE, !.sub = sub]
        ELSE raw[i]]

\* _prepare_mapping(mapping): [err |-> "ok", mapping |-> the resolved mapping],
\* or the exception raised.  PrepareLoop is the for loop over the sorted
\* items, from item i on, with the loop's mapping_mask, cycle_end and
\* new_mapping.
RECURSIVE _prepare_mapping(_)
RECURSIVE PrepareLoop(_, _, _, _, _, _)
PrepareLoop(items, i, mapping_mask, cycle_end, new_mapping, raw) ==
    IF i > Len(items)
    THEN [err |-> "ok", mapping |-> new_mapping, why |-> "", bits |-> 0, raw |-> raw]
    ELSE IF cycle_end THEN Raised("IndexError", "after non-ending", 0, raw)
    ELSE
      LET m == items[i] IN
      CASE m.kind = "pair" ->
             LET mm == check_update_mapping_mask(mapping_mask, _get_mask(m.a, m.b)) IN
             IF mm = None
             THEN Raised("IndexError", "intersection",
                         And(mapping_mask, _get_mask(m.a, m.b)), raw)
             ELSE PrepareLoop(items, i + 1, mm, FALSE,
                              Append(new_mapping, FSlice(m.name, m.a, m.b)), raw)
        [] m.kind = "int" ->
             IF m.a < 0 THEN Failed("ValueError", raw)
             ELSE
             LET mm == check_update_mapping_mask(mapping_mask, _get_mask(m.a, m.a + 1)) IN
             IF mm = None
             THEN Raised("IndexError", "intersection",
                         And(mapping_mask, _get_mask(m.a, m.a + 1)), raw)
             ELSE PrepareLoop(items, i + 1, mm, FALSE, Append(new_mapping, m), raw)
        [] m.kind = "dict" ->
             IF m.a < 0 \/ m.b < 0 THEN Failed("ValueError", raw)
             ELSE
             LET mm == check_update_mapping_mask(mapping_mask, _get_mask(m.a, m.b))
                 nested == _prepare_mapping(m.sub)
                 popped == PopIndex(raw, m.name, nested.raw)
             IN
             IF mm = None
             THEN Raised("IndexError", "intersection",
                         And(mapping_mask, _get_mask(m.a, m.b)), raw)
             ELSE IF nested.err # "ok" THEN [nested EXCEPT !.raw = popped]
             ELSE PrepareLoop(items, i + 1, mm, FALSE,
                              Append(new_mapping, [m EXCEPT !.sub = nested.mapping]),
                              popped)
        [] OTHER ->
             IF Truthy(m.b)
             THEN
               LET start == IF Truthy(m.a) THEN m.a ELSE 0 IN
               IF start < 0 \/ m.b < 0 THEN Failed("ValueError", raw)
               ELSE
               LET mm == check_update_mapping_mask(mapping_mask, _get_mask(start, m.b)) IN
               IF mm = None
               THEN Raised("IndexError", "intersection",
                           And(mapping_mask, _get_mask(start, m.b)), raw)
               ELSE PrepareLoop(items, i + 1, mm, FALSE, Append(new_mapping, m), raw)
             ELSE
               IF m.a = None THEN Failed("TypeError", raw)
               ELSE IF m.a < 0 THEN Failed("ValueError", raw)
               ELSE IF And(mapping_mask, Pow2(m.a)) # 0
               THEN Raised("IndexError", "intersection",
                           And(mapping_mask, Pow2(m.a)), raw)
               ELSE PrepareLoop(items, i + 1, mapping_mask, TRUE,
                                Append(new_mapping, m), raw)

_prepare_mapping(mapping) ==
    IF \E i \in 1..Len(mapping) : ~_mapping_filter(mapping[i])
    THEN Failed("ValueError", mapping)
    ELSE IF \E i \in 1..Len(mapping) :
              mapping[i].kind = "dict" /\ ~mapping[i].hasIndex
    THEN Failed("KeyError", mapping)
    ELSE IF Len(mapping) >= 2 /\ \E i \in 1..Len(mapping) : mapping[i].a = None
    THEN Failed("TypeError", mapping)
    ELSE PrepareLoop(SortByStart(mapping), 1, 0, FALSE, <<>>, mapping)

(***************************************************************************)
(* Classes.  BinFieldMeta.__new__ builds a class from its classdict: here  *)
(* the _size_ (None when absent), the _mask_ (hasMask: the key is          *)
(* present, as makecls always makes it) and the mapping (fromBody: it is   *)
(* collected from the class body, not given as _mapping_).                 *)
(***************************************************************************)

\* The fields of the class body that become the mapping (lines 334-341).
RECURSIVE BodyMapping(_)
BodyMapping(fields) ==
    IF fields = <<>> THEN <<>>
    ELSE LET m == fields[1]
             rest == BodyMapping(Tail(fields))
         IN IF ~_mapping_filter(m) THEN rest
            ELSE IF m.kind = "pair" THEN <<FSlice(m.name, m.a, m.b)>> \o rest
            ELSE <<m>> \o rest

\* The class BinFieldMeta.__new__ returns once _prepare_mapping has run (lines 352-400).
NewClass(size, mask, ready) ==
    IF ready.err # "ok"
    THEN [err |-> ready.err, size |-> None, mask |-> None, mapping |-> <<>>]
    ELSE [err |-> "ok", size |-> size, mask |-> mask, mapping |-> ready.mapping]

BinFieldMeta_new(size, hasMask, mask, mapping, fromBody) ==
    LET mask_from_size == IF size # None THEN Pow2(size) - 1 ELSE None
        mask1 == IF hasMask THEN mask ELSE mask_from_size
        size1 == IF mask1 # None /\ size = None THEN BitLength(mask1) ELSE size
        garbage == fromBody /\ \E i \in 1..Len(mapping) :
                      /\ ~_mapping_filter(mapping[i])
                      /\ mapping[i].name \notin UnderscoreNames
        bad(e) == [err |-> e, size |-> None, mask |-> None, mapping |-> <<>>]
    IN
    IF size # None /\ size <= 0 THEN bad("ValueError")
    ELSE IF mask1 # None /\ mask1 < 0 THEN bad("ValueError")
    ELSE IF garbage THEN bad("TypeError")
    ELSE NewClass(size1, mask1,
                  _prepare_mapping(IF fromBody THEN BodyMapping(mapping) ELSE mapping))

\* BinFieldMeta.makecls(name, mapping, mask, size)
makecls(mapping, mask, size) == BinFieldMeta_new(size, TRUE, mask, mapping, FALSE)

(***************************************************************************)
(* The state.                                                              *)
(*   classes: the classes made so far.  classes[1] is the class of the     *)
(*     root view; every other one was made by _get_child_cls_ of its       *)
(*     owner and is the entry (kmask, kname) of the owner's _cache_.       *)
(*   views: the BinField objects.  val is the private __value, parent and  *)
(*     off the __parent_link (parent = 0: no link).                        *)
(*   raw: a dict of fields that a caller holds and hands to                *)
(*     _prepare_mapping, as the calls so far have left it.                 *)
(*   resolved: what each call of _prepare_mapping on raw returned or       *)
(*     raised, in the order of the calls.  In SpecSchema raw is a class    *)
(*     body and resolved the outcome of the class statement.               *)
(***************************************************************************)
VARIABLES classes, views, raw, resolved

vars == <<classes, views, raw, resolved>>

\* The name a child class is memorized under.
SliceName(a, b) == [kind |-> "slice", a |-> a, b |-> b, f |-> ""]
IndexName(i) == [kind |-> "index", a |-> i, b |-> None, f |-> ""]
FieldName(s) == [kind |-> "field", a |-> None, b |-> None, f |-> s]
NoName == [kind |-> "none", a |-> None, b |-> None, f |-> ""]

\* A getter that returns the stored __value without resolving the link.
_value_cached(vs, cs, v) == vs[v].val

\* BinField._value_ (getter): the value of view v, resolved through its link.
\* obj & m is obj.__and__, which builds obj.__class__(obj._value_ & m).
RECURSIVE _value_(_, _, _)
_value_(vs, cs, v) ==
    LET self == vs[v] IN
    IF self.parent = 0 THEN self.val
    ELSE
      LET obj == self.parent
          offset == self.off
          objmask == cs[vs[obj].cls].mask
          anded == And(_value_(vs, cs, obj), Shl(cs[self.cls].mask, offset))
          tmp == IF Truthy(objmask) THEN And(anded, objmask) ELSE anded
      IN Shr(tmp, offset)

\* v and the views its value is resolved through.
RECURSIVE Chain(_, _)
Chain(vs, v) == IF vs[v].parent = 0 THEN {v} ELSE {v} \cup Chain(vs, vs[v].parent)

\* The getter stores what it resolved in __value, all the way up the chain.
Refresh(vs, cs, v) ==
    [i \in DOMAIN vs |->
        IF i \in Chain(vs, v) /\ vs[i].parent # 0
        THEN [vs[i] EXCEPT !.val = _value_(vs, cs, i)]
        ELSE vs[i]]

\* BinField._bit_size_
_bit_size_(vs, cs, v) ==
    LET size == cs[vs[v].cls].size IN
    IF Truthy(size) THEN size ELSE BitLength(_value_(vs, cs, v))

\* An __init__ that stores x as given.
InitValueUnmasked(cls, x) == x

\* BinField.__init__(x, _parent): the stored __value
InitValue(cls, x) == IF Truthy(cls.mask) THEN And(x, cls.mask) ELSE x

\* The outcome of a method: the exception raised ("ok": none), the objects
\* after it, and what it returned.
Result(err, vs, cs, ret) == [err |-> err, views |-> vs, classes |-> cs, ret |-> ret]

(***************************************************************************)
(* Reading: __getitem__ and _getslice_.                                    *)
(***************************************************************************)

\* The entry (mask, name) of the _cache_ of class owner: its index in classes, 0 if absent.
CacheLookup(cs, owner, mask, name) ==
    LET hits == {i \in DOMAIN cs :
                    cs[i].owner = owner /\ cs[i].kmask = mask /\ cs[i].kname = name}
    IN IF hits = {} THEN 0 ELSE CHOOSE i \in hits : TRUE

\* BinField._get_child_cls_(mask, name, cls_mask, size, mapping) on class owner:
\* the classes after it and the class it returns (ret), or makecls's exception.
\* Memorize new_cls as the entry (mask, name) of the _cache_ of class owner (lines 777-781).
Memorize(cs, owner, mask, name, new_cls) ==
    IF new_cls.err # "ok" THEN [err |-> new_cls.err, classes |-> cs, ret |-> 0]
    ELSE [err |-> "ok",
          classes |-> Append(cs, [owner |-> owner, kmask |-> mask, kname |-> name,
                                  size |-> new_cls.size, mask |-> new_cls.mask,
                                  mapping |-> new_cls.mapping]),
          ret |-> Len(cs) + 1]

_get_child_cls_(cs, owner, mask, name, cls_mask, size, mapping) ==
    LET hit == CacheLookup(cs, owner, mask, name) IN
    IF hit # 0 THEN [err |-> "ok", classes |-> cs, ret |-> hit]
    ELSE Memorize(cs, owner, mask, name, makecls(mapping, cls_mask, size))

\* A __copy__ that keeps the link of the view it copies.
__copy__linked(vs, cs, v) ==
    Result("ok",
           Append(Refresh(vs, cs, v),
                  [cls |-> vs[v].cls,
                   val |-> InitValue(cs[vs[v].cls], _value_(vs, cs, v)),
                   parent |-> vs[v].parent, off |-> vs[v].off]),
           cs, Len(vs) + 1)

\* BinField.__copy__()
__copy__(vs, cs, v) ==
    LET fresh == Refresh(vs, cs, v)
        cls == cs[vs[v].cls]
    IN Result("ok",
              Append(fresh, [cls |-> vs[v].cls, val |-> InitValue(cls, _value_(vs, cs, v)),
                             parent |-> 0, off |-> 0]),
              cs, Len(vs) + 1)

\* The child _getslice_ returns (lines 811-818): an object of class child.ret
\* holding x, linked to v at offset start.
NewChild(vs, cs, v, start, x, read, child) ==
    IF child.err # "ok" THEN Result(child.err, read, cs, 0)
    ELSE Result("ok",
                Append(Refresh(vs, cs, v),
                       [cls |-> child.ret, val |-> InitValue(child.classes[child.ret], x),
                        parent |-> v, off |-> start]),
                child.classes, Len(vs) + 1)

\* BinField._getslice_(item, mapping, name), item = slice(a, b)
_getslice_(vs, cs, v, a, b, mapping, name) ==
    LET self == cs[vs[v].cls]
        name1 == IF name = NoName THEN SliceName(IF Truthy(a) THEN a ELSE 0, b) ELSE name
        sized == Truthy(b) /\ (~Truthy(self.size) \/ b < self.size)
        stop == IF sized THEN b ELSE _bit_size_(vs, cs, v)
        start == IF Truthy(a) THEN a ELSE 0
        \* _bit_size_ and _value_ run the getter
        read == IF ~sized /\ ~Truthy(self.size) THEN Refresh(vs, cs, v) ELSE vs
        mask0 == _get_mask(start, stop)
        mask == IF self.mask # None THEN And(mask0, self.mask) ELSE mask0
    IN
    IF a = None /\ b = None THEN __copy__(vs, cs, v)
    ELSE IF Truthy(a) /\ Truthy(self.size) /\ a > self.size THEN Result("IndexError", vs, cs, 0)
    \* a negative shift count
    ELSE IF start < 0 \/ stop < 0 THEN Result("ValueError", read, cs, 0)
    ELSE NewChild(vs, cs, v, start, Shr(And(_value_(vs, cs, v), mask), start), read,
                  _get_child_cls_(cs, vs[v].cls, mask, name1, Shr(mask, start),
                                  stop - start, mapping))

\* self._mapping_.get(item): the entry named item, as a one-element sequence, or <<>>
MappingGet(mapping, item) ==
    SelectSeq(mapping, LAMBDA e : e.name = item)

\* BinField.__getitem__(item)
__getitem__(vs, cs, v, item) ==
    LET mapping == cs[vs[v].cls].mapping
        found == MappingGet(mapping, item.f)
        idx == found[1]
    IN
    IF item.kind = "int"
    THEN _getslice_(vs, cs, v, item.a, item.a + 1, <<>>, IndexName(item.a))
    ELSE IF _is_valid_slice(item) \/ _is_valid_slice_mapping(item)
    THEN _getslice_(vs, cs, v, item.a, item.b, <<>>, NoName)
    ELSE IF item.kind # "name" \/ item.f \in UnderscoreNames
    THEN Result("IndexError", vs, cs, 0)
    ELSE IF mapping = <<>> THEN Result("IndexError", vs, cs, 0)
    ELSE IF found = <<>> THEN Result("IndexError", vs, cs, 0)
    ELSE IF idx.kind = "int"
    THEN _getslice_(vs, cs, v, idx.a, idx.a + 1, <<>>, FieldName(item.f))
    ELSE IF idx.kind = "slice"
    THEN _getslice_(vs, cs, v, idx.a, idx.b, <<>>, FieldName(item.f))
    ELSE _getslice_(vs, cs, v, idx.a, idx.b, idx.sub, FieldName(item.f))

(***************************************************************************)
(* Writing: the _value_ setter, _setslice_ and __setitem__.                *)
(***************************************************************************)

\* A setter that stores the new value in __value and leaves the parent alone.
_value_setter_local(vs, cs, v, new_value) ==
    Result("ok", [vs EXCEPT ![v].val = new_value], cs, 0)

\* BinField._value_ (setter), and the obj[:] = ... it runs on the parent:
\* __setitem__ with slice(None, None) is the copy scenario of _setslice_.
RECURSIVE _value_setter(_, _, _, _)
_value_setter(vs, cs, v, new_value) ==
    LET self == vs[v]
        mask == cs[self.cls].mask
        new == IF Truthy(mask) THEN And(new_value, mask) ELSE new_value
        obj == self.parent
        offset == self.off
        \* int(obj) runs the parent's getter
        read == Refresh(vs, cs, obj)
        whole == Or(And(_value_(vs, cs, obj), Not(Shl(mask, offset))), Shl(new, offset))
        size == cs[vs[obj].cls].size
        up == IF Truthy(size) /\ BitLength(whole) > size
              THEN Result("OverflowError", read, cs, 0)
              ELSE _value_setter(read, cs, obj, whole)
    IN
    IF obj = 0 THEN Result("ok", [vs EXCEPT ![v].val = new], cs, 0)
    ELSE IF up.err # "ok" THEN up
    ELSE Result("ok", [up.views EXCEPT ![v].val = new], cs, 0)

\* A _setslice_ that writes first and looks at the width of value afterwards.
_setslice_write_first(vs, cs, v, a, b, value) ==
    LET stop == IF Truthy(b) THEN b ELSE _bit_size_(vs, cs, v)
        start == IF Truthy(a) THEN a ELSE 0
        w == _value_setter(vs, cs, v,
                           Or(And(_value_(vs, cs, v), Not(_get_mask(start, stop))),
                              Shl(value, start)))
    IN IF w.err = "ok" /\ BitLength(value) > stop - start
       THEN Result("ValueError", w.views, cs, 0)
       ELSE w

\* BinField._setslice_(key, value), key = slice(a, b)
_setslice_(vs, cs, v, a, b, value) ==
    LET self == cs[vs[v].cls]
        stop == IF Truthy(b) THEN b ELSE _bit_size_(vs, cs, v)
        start == IF Truthy(a) THEN a ELSE 0
        shifted == Shl(value, start)
        get_mask0 == _get_mask(start, stop)
        get_mask == IF Truthy(self.mask) THEN And(get_mask0, self.mask) ELSE get_mask0
        \* _bit_size_ of an unsized view runs the getter
        read == IF Truthy(b) \/ Truthy(self.size) THEN vs ELSE Refresh(vs, cs, v)
    IN
    IF a = None /\ b = None
    THEN IF Truthy(self.size) /\ BitLength(value) > self.size
         THEN Result("OverflowError", vs, cs, 0)
         ELSE _value_setter(vs, cs, v, value)
    ELSE IF Truthy(self.size) /\ Truthy(b) /\ b > self.size
    THEN Result("OverflowError", vs, cs, 0)
    ELSE IF BitLength(value) > stop THEN Result("ValueError", read, cs, 0)
    ELSE IF Truthy(a) /\ BitLength(value) > stop - start THEN Result("ValueError", read, cs, 0)
    \* a negative shift count
    ELSE IF start < 0 THEN Result("ValueError", read, cs, 0)
    ELSE _value_setter(Refresh(vs, cs, v), cs, v,
                       Or(And(_value_(vs, cs, v), Not(get_mask)), shifted))

\* BinField.__setitem__(key, value), value an int
__setitem__(vs, cs, v, key, value) ==
    LET mapping == cs[vs[v].cls].mapping
        found == MappingGet(mapping, key.f)
        idx == found[1]
    IN
    IF key.kind = "int" THEN _setslice_(vs, cs, v, key.a, key.a + 1, value)
    ELSE IF _is_valid_slice(key) \/ _is_valid_slice_mapping(key)
    THEN _setslice_(vs, cs, v, key.a, key.b, value)
    ELSE IF key.kind # "name" THEN Result("IndexError", vs, cs, 0)
    ELSE IF mapping = <<>> THEN Result("IndexError", vs, cs, 0)
    ELSE IF found = <<>> THEN Result("IndexError", vs, cs, 0)
    ELSE IF idx.kind = "int" THEN _setslice_(vs, cs, v, idx.a, idx.a + 1, value)
    ELSE IF idx.kind = "slice"
    THEN IF _is_valid_slice(idx) THEN _setslice_(vs, cs, v, idx.a, idx.b, value)
         ELSE Result("IndexError", vs, cs, 0)
    ELSE IF _is_valid_slice_mapping(Pair(idx.a, idx.b))
    THEN _setslice_(vs, cs, v, idx.a, idx.b, value)
    ELSE Result("IndexError", vs, cs, 0)

\* BinField.__iadd__(other)
__iadd__(vs, cs, v, other) ==
    LET size == cs[vs[v].cls].size
        res == _value_(vs, cs, v) + other
        read == Refresh(vs, cs, v)
    IN
    IF Truthy(size) /\ size < BitLength(res) THEN Result("OverflowError", read, cs, 0)
    ELSE IF res < 0 THEN Result("ValueError", read, cs, 0)
    ELSE _value_setter(read, cs, v, res)

\* BinField.__isub__(other)
__isub__(vs, cs, v, other) == __iadd__(vs, cs, v, -other)

\* BinField.__iand__(other): self._value_ &= int(other)
__iand__(vs, cs, v, other) ==
    _value_setter(Refresh(vs, cs, v), cs, v, And(_value_(vs, cs, v), other))

\* BinField.__ior__(other): self._value_ |= int(other)
__ior__(vs, cs, v, other) ==
    _value_setter(Refresh(vs, cs, v), cs, v, Or(_value_(vs, cs, v), other))

\* BinField.__ixor__(other): self._value_ ^= int(other)
__ixor__(vs, cs, v, other) ==
    _value_setter(Refresh(vs, cs, v), cs, v, Xor(_value_(vs, cs, v), other))

\* What an operator returned: a plain int (ret is the int) or a new object
\* (ret is its place in views).
Returned(err, vs, cs, ret, plain) ==
    [err |-> err, views |-> vs, classes |-> cs, ret |-> ret, plain |-> plain]

\* BinField.__add__(other)
__add__(vs, cs, v, other) ==
    LET cls == cs[vs[v].cls]
        res == _value_(vs, cs, v) + other
        read == Refresh(vs, cs, v)
    IN
    IF res < 0 THEN Returned("ValueError", read, cs, 0, FALSE)
    ELSE IF Truthy(cls.size) /\ cls.size < BitLength(res)
    THEN Returned("ok", read, cs, res, TRUE)
    ELSE Returned("ok",
                  Append(read, [cls |-> vs[v].cls, val |-> InitValue(cls, res),
                                parent |-> 0, off |-> 0]),
                  cs, Len(vs) + 1, FALSE)

\* BinField.__sub__(other)
__sub__(vs, cs, v, other) == __add__(vs, cs, v, -other)

(***************************************************************************)
(* Comparing: __len__ and __eq__.                                          *)
(***************************************************************************)

\* The other operand of a comparison: an int, a BinField (its place in
\* views), or an object of another type.
IntObj(n) == [kind |-> "int", n |-> n]
ViewObj(v) == [kind |-> "view", n |-> v]
StrObj == [kind |-> "str", n |-> 0]

\* A __len__ that counts bits.
__len__in_bits(vs, cs, v) ==
    LET length == _bit_size_(vs, cs, v) IN
    IF length # 0 THEN length ELSE 1

\* BinField.__len__(): int(math.ceil(self._bit_size_ / 8.0)), 1 at least
__len__(vs, cs, v) ==
    LET length == (_bit_size_(vs, cs, v) + 7) \div 8 IN
    IF length # 0 THEN length ELSE 1

\* An __eq__ that compares the values only.
__eq__by_value(vs, cs, self, other) ==
    /\ other.kind # "str"
    /\ _value_(vs, cs, self)
         = IF other.kind = "int" THEN other.n ELSE _value_(vs, cs, other.n)

\* BinField.__eq__(other).  self._value_ == other with other an object of
\* self's class is int.__eq__, which does not know the class, and then
\* other.__eq__(self._value_): the comparison of the two values.
__eq__(vs, cs, self, other) ==
    IF other.kind = "int" THEN _value_(vs, cs, self) = other.n
    ELSE IF other.kind = "view" /\ vs[other.n].cls = vs[self].cls
    THEN _value_(vs, cs, self) = _value_(vs, cs, other.n)
    ELSE IF other.kind = "view"
    THEN /\ _value_(vs, cs, self) = _value_(vs, cs, other.n)
         /\ cs[vs[self].cls].mapping = cs[vs[other.n].cls].mapping
         /\ __len__(vs, cs, self) = __len__(vs, cs, other.n)
    ELSE FALSE

\* hash(n) of an int n with |n| < 2^61 - 1: n itself, but -2 for -1.
HashInt(n) == IF n = -1 THEN -2 ELSE n

\* A __hash__ that takes the link in: the parent and the offset.
__hash__with_link(vs, cs, v) ==
    <<vs[v].cls, HashInt(_value_(vs, cs, v)), vs[v].parent, vs[v].off>>

\* BinField.__hash__(): hash((self.__class__, self._value_)).  The hash of
\* the tuple is kept as the tuple of what is hashed: the class, which hashes
\* by identity, and the hash of the value.
__hash__(vs, cs, v) == <<vs[v].cls, HashInt(_value_(vs, cs, v))>>

(***************************************************************************)
(* The state machine: views of one root class, and the operations a caller *)
(* runs on them.  Spec has a root class without fields and at most         *)
(* MaxViews views.                                                         *)
(***************************************************************************)

\* The views alive at a time.
MaxViews == 2
\* The highest bit position a key names.
MaxBit == 2
\* The largest operand of a write.
MaxInt == 3

Positions == 0..MaxBit
OptPositions == Positions \cup {None}
Operands == -1..MaxInt

\* The keys of __getitem__ and __setitem__: ints, closed ranges one or two bits
\* wide, open-ended ranges, an empty range and a pair.
Keys ==
    {Index(i) : i \in Positions}
    \cup {Slice(a, a + w) : a \in 0..MaxBit - 1, w \in 1..2}
    \cup {Slice(a, None) : a \in OptPositions}
    \cup {Slice(None, 2), Slice(2, 1), Pair(1, 3)}

\* The class declarations of the root view: <<_size_, _mask_ given, _mask_>>,
\* and whether makecls makes the class.
RootDecls ==
    { <<None, FALSE, None, FALSE>>,    \* class C(BinField): pass
      <<2, FALSE, None, FALSE>>,       \* _size_ = 2
      <<2, TRUE, None, TRUE>>,         \* makecls(size=2)
      <<None, TRUE, 5, FALSE>>,        \* _mask_ = 0b101
      <<None, TRUE, 0, FALSE>>,        \* _mask_ = 0
      <<2, TRUE, 0, FALSE>>,           \* _size_ = 2, _mask_ = 0
      <<2, TRUE, 7, FALSE>> }          \* _size_ = 2, _mask_ = 0b111

RootClass(decl, mapping, fromBody) ==
    LET made == IF decl[4] THEN makecls(mapping, decl[3], decl[1])
                ELSE BinFieldMeta_new(decl[1], decl[2], decl[3], mapping, fromBody)
    IN [owner |-> 0, kmask |-> None, kname |-> NoName, err |-> made.err,
        size |-> made.size, mask |-> made.mask, mapping |-> made.mapping]

\* The value of every view.
Values(vs, cs) == [i \in DOMAIN vs |-> _value_(vs, cs, i)]

\* No stored value is wider than the positions the keys name.
Fits(vs) == \A i \in DOMAIN vs : BitLength(vs[i].val) <= MaxBit + 1

\* BinField(x) of a declared class
Construct(cls, x) ==
    /\ cls.err = "ok"
    /\ classes = <<[owner |-> 0, kmask |-> None, kname |-> NoName,
                    size |-> cls.size, mask |-> cls.mask, mapping |-> cls.mapping]>>
    /\ views = <<[cls |-> 1, val |-> InitValue(cls, x), parent |-> 0, off |-> 0]>>
    /\ raw = <<>>
    /\ resolved = <<>>

Init ==
    \E decl \in RootDecls, x \in {-1, 0, 5, 6} :
        Construct(RootClass(decl, <<>>, TRUE), x)

\* w = v[key]
GetItem(v, key) ==
    LET r == __getitem__(views, classes, v, key) IN
    /\ views' = r.views
    /\ classes' = r.classes
    /\ UNCHANGED <<raw, resolved>>

\* v[key] = x
SetItem(v, key, x) ==
    LET r == __setitem__(views, classes, v, key, x) IN
    /\ views' = r.views
    /\ classes' = r.classes
    /\ UNCHANGED <<raw, resolved>>

\* v._value_ = x
SetValue(v, x) ==
    LET r == _value_setter(views, classes, v, x) IN
    /\ views' = r.views
    /\ classes' = r.classes
    /\ UNCHANGED <<raw, resolved>>

\* v += x
IAdd(v, x) ==
    LET r == __iadd__(views, classes, v, x) IN
    /\ views' = r.views
    /\ classes' = r.classes
    /\ UNCHANGED <<raw, resolved>>

\* v -= x
ISub(v, x) ==
    LET r == __isub__(views, classes, v, x) IN
    /\ views' = r.views
    /\ classes' = r.classes
    /\ UNCHANGED <<raw, resolved>>

\* v &= x
IAnd(v, x) ==
    LET r == __iand__(views, classes, v, x) IN
    /\ views' = r.views
    /\ classes' = r.classes
    /\ UNCHANGED <<raw, resolved>>

\* v |= x
IOr(v, x) ==
    LET r == __ior__(views, classes, v, x) IN
    /\ views' = r.views
    /\ classes' = r.classes
    /\ UNCHANGED <<raw, resolved>>

\* v ^= x
IXor(v, x) ==
    LET r == __ixor__(views, classes, v, x) IN
    /\ views' = r.views
    /\ classes' = r.classes
    /\ UNCHANGED <<raw, resolved>>

\* w = v + x
Add(v, x) ==
    LET r == __add__(views, classes, v, x) IN
    /\ views' = r.views
    /\ classes' = r.classes
    /\ UNCHANGED <<raw, resolved>>

\* w = v - x
Sub(v, x) ==
    LET r == __sub__(views, classes, v, x) IN
    /\ views' = r.views
    /\ classes' = r.classes
    /\ UNCHANGED <<raw, resolved>>

\* int(v)
Read(v) ==
    /\ views' = Refresh(views, classes, v)
    /\ classes' = classes
    /\ UNCHANGED <<raw, resolved>>

Next ==
    \E v \in DOMAIN views :
        \/ \E key \in Keys : Len(views) < MaxViews /\ GetItem(v, key)
        \/ \E key \in Keys, x \in Operands : SetItem(v, key, x) /\ Fits(views')
        \/ \E x \in Operands : SetValue(v, x) /\ Fits(views')
        \/ \E x \in Operands : IAdd(v, x) /\ Fits(views')
        \/ \E x \in Operands : ISub(v, x) /\ Fits(views')
        \/ \E x \in Operands : Len(views) < MaxViews /\ Add(v, x) /\ Fits(views')
        \/ \E x \in Operands : Len(views) < MaxViews /\ Sub(v, x) /\ Fits(views')
        \/ Read(v)

Spec == Init /\ [][Next]_vars

(***************************************************************************)
(* SpecAlias: classes with a size, and up to MaxAlias views, so that two   *)
(* children of one parent, or a child of a child, are alive at once.       *)
(***************************************************************************)

MaxAlias == 3

AliasDecls ==
    { <<2, FALSE, None, FALSE>>,       \* _size_ = 2
      <<2, TRUE, None, TRUE>> }        \* makecls(size=2)

\* Keys of overlapping children, and a key of each kind that is refused.
AliasKeys == {Index(0), Index(1), Slice(0, 2), Slice(1, None), Slice(2, 1), Pair(1, 3)}

InitAlias ==
    \E decl \in AliasDecls, x \in {0, 5} :
        Construct(RootClass(decl, <<>>, TRUE), x)

NextAlias ==
    \E v \in DOMAIN views :
        \/ \E key \in AliasKeys : Len(views) < MaxAlias /\ GetItem(v, key)
        \/ \E key \in AliasKeys, x \in Operands : SetItem(v, key, x) /\ Fits(views')
        \/ \E x \in Operands : SetValue(v, x) /\ Fits(views')
        \/ \E x \in Operands : IAdd(v, x) /\ Fits(views')
        \/ \E x \in Operands : ISub(v, x) /\ Fits(views')
        \/ Read(v)

SpecAlias == InitAlias /\ [][NextAlias]_vars

(***************************************************************************)
(* SpecNested: the class with a nested block of test_positive_mapped_nested *)
(* (src/test/test_baseFunc.py), read and written by field name, with up to *)
(* MaxNested views, so that two children of one parent are alive at once.  *)
(***************************************************************************)

MaxNested == 3

NestedMappedBinField ==
    RootClass(<<8, FALSE, None, FALSE>>,
              <<FInt("test_index", 0),
                FDict("nested_block", 1, 6,
                      <<FInt("single_bit", 0), FPair("multiple", 1, 3)>>)>>,
              TRUE)

NestedKeys ==
    {Name(n) : n \in {"test_index", "nested_block", "single_bit", "multiple", "nonexistent"}}
    \cup {Slice(1, 3)}

NestedOperands == {-1, 0, MaxInt}

InitNested == \E x \in {0, 255} : Construct(NestedMappedBinField, x)

NextNested ==
    \E v \in DOMAIN views :
        \/ \E key \in NestedKeys : Len(views) < MaxNested /\ GetItem(v, key)
        \/ \E key \in NestedKeys, x \in NestedOperands : SetItem(v, key, x)
        \/ \E x \in NestedOperands : SetValue(v, x)
        \/ Read(v)

SpecNested == InitNested /\ [][NextNested]_vars

(***************************************************************************)
(* SpecEq: two views made on their own, each of a class of its own, the    *)
(* children and copies read from them, and the comparisons between all of  *)
(* them; up to MaxEq views.  The classes differ in size within one byte,   *)
(* in the number of bytes, in mask and in mapping.                         *)
(***************************************************************************)

MaxEq == 4

\* The wider of the two values a view is made from: it takes two bytes.
WideValue == 256

EqClasses ==
    { RootClass(<<2, FALSE, None, FALSE>>, <<>>, TRUE),       \* _size_ = 2
      RootClass(<<3, FALSE, None, FALSE>>, <<>>, TRUE),       \* _size_ = 3
      RootClass(<<9, FALSE, None, FALSE>>, <<>>, TRUE),       \* _size_ = 9
      RootClass(<<2, FALSE, None, FALSE>>,                    \* _size_ = 2; lo = 0; hi = 1
                <<FInt("lo", 0), FInt("hi", 1)>>, TRUE),
      RootClass(<<None, FALSE, None, FALSE>>, <<>>, TRUE),    \* no size, no mask
      RootClass(<<None, TRUE, 5, FALSE>>, <<>>, TRUE) }       \* _mask_ = 0b101

EqKeys == {Index(0), Slice(0, 2), Slice(None, None), Name("lo")}

\* a = A(x); b = B(y)
InitEq ==
    \E A \in EqClasses, B \in EqClasses : \E x, y \in {1, WideValue} :
        /\ A.err = "ok" /\ B.err = "ok"
        /\ classes = <<[owner |-> 0, kmask |-> None, kname |-> NoName,
                        size |-> A.size, mask |-> A.mask, mapping |-> A.mapping],
                       [owner |-> 0, kmask |-> None, kname |-> NoName,
                        size |-> B.size, mask |-> B.mask, mapping |-> B.mapping]>>
        /\ views = <<[cls |-> 1, val |-> InitValue(A, x), parent |-> 0, off |-> 0],
                     [cls |-> 2, val |-> InitValue(B, y), parent |-> 0, off |-> 0]>>
        /\ raw = <<>>
        /\ resolved = <<>>

\* v == w: both getters run
Equal(v, w) ==
    /\ views' = Refresh(Refresh(views, classes, v), classes, w)
    /\ classes' = classes
    /\ UNCHANGED <<raw, resolved>>

NextEq ==
    \E v \in DOMAIN views :
        \/ \E key \in EqKeys : Len(views) < MaxEq /\ GetItem(v, key)
        \/ \E x \in 0..1 : SetValue(v, x)
        \/ \E w \in DOMAIN views : Equal(v, w)
        \/ Read(v)

SpecEq == InitEq /\ [][NextEq]_vars

(***************************************************************************)
(* SpecResolve: a caller holds a dict of up to MaxFields fields and hands  *)
(* it to _prepare_mapping, up to MaxResolve times.                         *)
(***************************************************************************)

\* The calls of _prepare_mapping on one dict.
MaxResolve == 2

\* The fields of a dict.
MaxFields == 3

\* The values a field named n is declared with: a bit, a (start, stop) pair, a
\* slice with a stop, a slice without a stop, a slice without a start, and a
\* nested block.
RawValues(n) ==
    {FInt(n, i) : i \in 0..2}
    \cup {FPair(n, 0, 2), FPair(n, 1, 3), FSlice(n, 2, 4)}
    \cup {FSlice(n, a, None) : a \in 1..2}
    \cup {FSlice(n, None, 2)}
    \cup {FDict(n, 1, 4, <<FInt("p", 0), FPair("q", 1, 3)>>)}

\* The dicts: the fields "x", "y", "z" in the order of their declaration.
RawFieldSets ==
    {<<a>> : a \in RawValues("x")}
    \cup {<<a, b>> : a \in RawValues("x"), b \in RawValues("y")}
    \cup IF MaxFields < 3 THEN {}
         ELSE {<<a, b, c>> : a \in RawValues("x"), b \in RawValues("y"),
                             c \in RawValues("z")}

InitResolve ==
    /\ raw \in RawFieldSets
    /\ resolved = <<>>
    /\ classes = <<>>
    /\ views = <<>>

\* _prepare_mapping(raw)
Resolve ==
    LET r == _prepare_mapping(raw) IN
    /\ Len(resolved) < MaxResolve
    /\ resolved' = Append(resolved, [err |-> r.err, mapping |-> r.mapping,
                                     why |-> r.why, bits |-> r.bits])
    /\ raw' = r.raw
    /\ UNCHANGED <<classes, views>>

NextResolve == Resolve

SpecResolve == InitResolve /\ [][NextResolve]_vars

(***************************************************************************)
(* SpecSchema: a class statement with a _size_ and up to two declared      *)
(* fields, nested blocks with a malformed "_index_" among them; when the   *)
(* class is made, one object of it and the children read from the object   *)
(* by field name, up to MaxSchema views.  raw is the class body as         *)
(* written, resolved the outcome of the class statement.                   *)
(***************************************************************************)

MaxSchema == 3

\* The fields of every nested block.
BlockFields == <<FInt("p", 0)>>

\* A nested block without "_index_".
NoIndexBlock(n) == [FDict(n, None, None, BlockFields) EXCEPT !.hasIndex = FALSE]

\* The values a field named n is declared with: a bit, a (start, stop) pair,
\* a slice without a start, slices without a stop, a nested block, and the
\* nested blocks whose "_index_" is descending, empty, negative or missing.
SchemaValues(n) ==
    {FInt(n, 0), FInt(n, 2), FPair(n, 1, 3), FSlice(n, None, 2),
     FSlice(n, 1, None), FSlice(n, 2, None),
     FDict(n, 1, 3, BlockFields),
     FDict(n, 3, 1, BlockFields), FDict(n, 2, 2, BlockFields),
     FDict(n, -1, 2, BlockFields), NoIndexBlock(n)}

\* The class bodies: the field "x", or the fields "x" and "y".
Schemas ==
    {<<a>> : a \in SchemaValues("x")}
    \cup {<<a, b>> : a \in SchemaValues("x"), b \in SchemaValues("y")}

\* The _size_ of the class statement.
SchemaSizes == {None, 2, 4}

InitSchema ==
    /\ raw \in Schemas
    /\ resolved = <<>>
    /\ classes = <<>>
    /\ views = <<>>

\* class T(BinField): _size_ = size; <the fields of raw>
Declare(size) ==
    LET cls == RootClass(<<size, FALSE, None, FALSE>>, raw, TRUE) IN
    /\ resolved = <<>>
    /\ resolved' = <<[err |-> cls.err, mapping |-> cls.mapping, why |-> "", bits |-> 0]>>
    /\ classes' = IF cls.err # "ok" THEN <<>>
                  ELSE <<[owner |-> 0, kmask |-> None, kname |-> NoName,
                          size |-> cls.size, mask |-> cls.mask,
                          mapping |-> cls.mapping]>>
    /\ UNCHANGED <<raw, views>>

\* T(x)
New(x) ==
    /\ classes # <<>>
    /\ views = <<>>
    /\ views' = <<[cls |-> 1, val |-> InitValue(classes[1], x), parent |-> 0, off |-> 0]>>
    /\ UNCHANGED <<classes, raw, resolved>>

SchemaKeys == {Name("x"), Name("y"), Name("p")}

NextSchema ==
    \/ \E size \in SchemaSizes : Declare(size)
    \/ \E x \in {0, 5, 15} : New(x)
    \/ \E v \in DOMAIN views :
          \/ \E key \in SchemaKeys : Len(views) < MaxSchema /\ GetItem(v, key)
          \/ \E key \in SchemaKeys, x \in 0..1 : SetItem(v, key, x)
          \/ Read(v)

SpecSchema == InitSchema /\ [][NextSchema]_vars

(***************************************************************************)
(* The claims.  A claim about an operation is stated in every reachable    *)
(* state, for every view of that state and every input of the operation:   *)
(* g, w, f below are the outcomes of the calls the claim is about, each    *)
(* run on the objects the one before it left.                              *)
(***************************************************************************)

\* mask_for(a, b): the bits a..b-1
mask_for(a, b) == Pow2(b) - Pow2(a)

\* The ranges [a, b) with 0 <= a < b that the keys name.
Ranges == {r \in Positions \X (1..MaxBit + 1) : r[1] < r[2]}

\* C1: for every view v of width N, every value of v and every range
\* 0 <= a < b <= N, v[a:b] is a child whose value is
\* (v.value() & mask_for(a, b)) >> a.
C1_SliceConsistency ==
    \A v \in DOMAIN views : \A r \in Ranges :
        r[2] <= _bit_size_(views, classes, v) =>
            LET g == __getitem__(views, classes, v, Slice(r[1], r[2])) IN
            /\ g.err = "ok"
            /\ _value_(g.views, g.classes, g.ret)
                 = Shr(And(_value_(views, classes, v), mask_for(r[1], r[2])), r[1])

\* C2: for every view v, every range [a, b) inside v and every integer x with
\* bit_length(x) <= b - a, after c = v[a:b] and c._value_ = x a fresh read
\* v[a:b] has the value x, and every bit of v outside [a, b) is what it was.
C2_WriteThrough ==
    \A v \in DOMAIN views : \A r \in Ranges : \A x \in Operands :
        (r[2] <= _bit_size_(views, classes, v) /\ BitLength(x) <= r[2] - r[1]) =>
            LET g == __getitem__(views, classes, v, Slice(r[1], r[2]))
                w == _value_setter(g.views, g.classes, g.ret, x)
                f == __getitem__(w.views, w.classes, v, Slice(r[1], r[2]))
                outside == Not(mask_for(r[1], r[2]))
            IN
            /\ g.err = "ok" /\ w.err = "ok" /\ f.err = "ok"
            /\ _value_(f.views, f.classes, f.ret) = x
            /\ And(_value_(w.views, w.classes, v), outside)
                 = And(_value_(views, classes, v), outside)

\* C3: a linked child c of parent p at offset o with mask m always reads
\* (p.value() & (m << o)) >> o of p's value at the time of the read, whatever
\* was written since c was made: on p, through another child of p, or through
\* an ancestor of p.
C3_AliasFreshness ==
    \A c \in DOMAIN views :
        views[c].parent # 0 =>
            _value_(views, classes, c)
              = Shr(And(_value_(views, classes, views[c].parent),
                        Shl(classes[views[c].cls].mask, views[c].off)),
                    views[c].off)

\* C3 happens: two children c and d of one parent made by the same key (they
\* share the memorized class), and a write since c's last read: the __value
\* that c stored is no longer its value.
C3_Witness ==
    \E c, d \in DOMAIN views :
        /\ c # d
        /\ views[c].parent # 0
        /\ views[c].parent = views[d].parent
        /\ views[c].cls = views[d].cls
        /\ views[c].val # _value_(views, classes, c)

\* The width of a field of a resolved mapping: an int is one bit.
FieldWidth(e) == IF e.kind = "int" THEN 1 ELSE e.b - e.a

\* C4: when a field of width w at offset s2 of a nested block that sits at
\* offset s1 of the root v is written with x (bit_length(x) <= w) through
\* v[block][field] = x, the root's bits [s1+s2, s1+s2+w) become x and every
\* other bit of the root is what it was.
C4_ChainedWriteThrough ==
    \A v \in DOMAIN views :
        LET mapping == classes[views[v].cls].mapping IN
        \A i \in DOMAIN mapping :
            mapping[i].kind = "dict" =>
                \A j \in DOMAIN mapping[i].sub : \A x \in NestedOperands :
                    LET block == mapping[i]
                        field == block.sub[j]
                        lo == block.a + field.a
                        hi == lo + FieldWidth(field)
                        g == __getitem__(views, classes, v, Name(block.name))
                        w == __setitem__(g.views, g.classes, g.ret, Name(field.name), x)
                    IN
                    (views[v].parent = 0 /\ BitLength(x) <= FieldWidth(field)) =>
                        /\ g.err = "ok" /\ w.err = "ok"
                        /\ Shr(And(_value_(w.views, w.classes, v), mask_for(lo, hi)), lo) = x
                        /\ And(_value_(w.views, w.classes, v), Not(mask_for(lo, hi)))
                             = And(_value_(views, classes, v), Not(mask_for(lo, hi)))

\* The scenario of C5 on a view v that holds 0xFF: b = v["nested_block"],
\* b._value_ = 0, then v["nested_block"]["multiple"] = 3 with the block
\* fetched again.  It ends with v holding first after the first write and
\* second after the second.
Scenario(first, second) ==
    \A v \in DOMAIN views :
        (views[v].cls = 1 /\ views[v].val = 255) =>
            LET g1 == __getitem__(views, classes, v, Name("nested_block"))
                w1 == _value_setter(g1.views, g1.classes, g1.ret, 0)
                g2 == __getitem__(w1.views, w1.classes, v, Name("nested_block"))
                w2 == __setitem__(g2.views, g2.classes, g2.ret, Name("multiple"), 3)
            IN
            /\ g1.err = "ok" /\ w1.err = "ok" /\ g2.err = "ok" /\ w2.err = "ok"
            /\ _value_(w1.views, w1.classes, v) = first
            /\ _value_(w2.views, w2.classes, v) = second

\* C5 as stated: v made from 0xFF holds 0b11000001 after
\* v["nested_block"]._value_ = 0 and 0b11000111 after the further
\* v["nested_block"]["multiple"] = 3.
C5_Scenario == Scenario(193, 199)

\* C5 amended: v made from 0xFF holds 0b11000001 after
\* v["nested_block"]._value_ = 0 and 0b11001101 after the further
\* v["nested_block"]["multiple"] = 3: multiple is the bits 1..2 of the block,
\* which are the bits 2..3 of v.
C5_ScenarioAmended == Scenario(193, 205)

\* C5 happens: the scenario has run.  v holds 0b11001101, and both blocks
\* fetched from it are alive and read 0b00110.
C5_Witness ==
    /\ Len(views) = 3
    /\ views[1].val = 205
    /\ \A c \in {2, 3} :
          /\ views[c].parent = 1
          /\ classes[views[c].cls].kname = FieldName("nested_block")
          /\ _value_(views, classes, c) = 6

\* The values a write left differ from the values before it.
Mutated(w) == Values(w.views, w.classes) # Values(views, classes)

\* C6: a write (by index, range or pair, of the full value, +=, -=) that ends
\* in an error leaves the value of the target, of its ancestors and of every
\* other view exactly what it was.
C6_NoPartialMutation ==
    \A v \in DOMAIN views : \A x \in Operands :
        /\ \A key \in AliasKeys \cup {Slice(None, None)} :
              LET w == __setitem__(views, classes, v, key, x) IN
              w.err # "ok" => ~Mutated(w)
        /\ LET w == _value_setter(views, classes, v, x) IN w.err # "ok" => ~Mutated(w)
        /\ LET w == __iadd__(views, classes, v, x) IN w.err # "ok" => ~Mutated(w)
        /\ LET w == __isub__(views, classes, v, x) IN w.err # "ok" => ~Mutated(w)

\* C6 happens: a child c has a sibling d, and a write through c is refused by
\* the parent (the OverflowError of the parent's obj[:] = ...), after c's
\* setter has started.
C6_Witness ==
    \E c, d \in DOMAIN views : \E x \in Operands :
        /\ c # d
        /\ views[c].parent # 0
        /\ views[c].parent = views[d].parent
        /\ _value_setter(views, classes, c, x).err = "OverflowError"

\* C7: for every view v, every key k and every integer x >= 0 for which
\* v[k] = x is accepted, the read v[k] that follows gives a view equal to x.
C7_SetThenGet ==
    \A v \in DOMAIN views : \A key \in Keys : \A x \in 0..MaxInt :
        LET w == __setitem__(views, classes, v, key, x)
            g == __getitem__(w.views, w.classes, v, key)
        IN w.err = "ok" =>
              /\ g.err = "ok"
              /\ _value_(g.views, g.classes, g.ret) = x

\* C8: for every view v, every bounded range [a, b) and every integer x for
\* which v[a:b] = x is accepted, the bits of v outside [a, b) are what they
\* were before the write.
C8_RangeWriteFrame ==
    \A v \in DOMAIN views : \A r \in Ranges : \A x \in Operands :
        LET w == __setitem__(views, classes, v, Slice(r[1], r[2]), x)
            outside == Not(mask_for(r[1], r[2]))
        IN w.err = "ok" =>
              And(_value_(w.views, w.classes, v), outside)
                = And(_value_(views, classes, v), outside)

\* The keys that name a bounded range [a, b): an int i is [i, i+1), an absent
\* start is 0.
BoundedKeys ==
    {k \in Keys : k.kind = "int" \/ (k.b # None /\ (k.a = None \/ k.a < k.b))}

KeyStart(k) == IF k.a = None THEN 0 ELSE k.a
KeyStop(k) == IF k.kind = "int" THEN k.a + 1 ELSE k.b

\* C9: on a view with configured size N a write v[a:b] = x of a bounded range
\* raises OverflowError when b > N, raises ValueError when b <= N and
\* bit_length(x) > b - a, and is accepted otherwise; v[:] = x raises
\* OverflowError exactly when bit_length(x) > N.
C9_WriteAcceptance ==
    \A v \in DOMAIN views : \A x \in Operands :
        LET N == classes[views[v].cls].size IN
        N # None =>
            /\ \A k \in BoundedKeys :
                  __setitem__(views, classes, v, k, x).err
                    = IF KeyStop(k) > N THEN "OverflowError"
                      ELSE IF BitLength(x) > KeyStop(k) - KeyStart(k) THEN "ValueError"
                      ELSE "ok"
            /\ __setitem__(views, classes, v, Slice(None, None), x).err = "OverflowError"
                 <=> BitLength(x) > N

\* The values of the views of the state after a call that may have made a view.
Kept(g) == [i \in DOMAIN views |-> _value_(g.views, g.classes, i)] = Values(views, classes)

\* C10: on a view with configured size N, v[i] and v[i:...] raise IndexError
\* whenever i >= N, and v[i] with 0 <= i < N is a child one bit wide; the view
\* is unchanged in both cases.
C10_OutOfRangeRead ==
    \A v \in DOMAIN views :
        LET N == classes[views[v].cls].size IN
        N # None =>
            \A k \in Keys :
                LET g == __getitem__(views, classes, v, k) IN
                /\ (k.kind \in {"int", "slice"} /\ k.a # None /\ k.a >= N) =>
                      (g.err = "IndexError" /\ Kept(g))
                /\ (k.kind = "int" /\ k.a < N) =>
                      /\ g.err = "ok"
                      /\ g.classes[g.views[g.ret].cls].size = 1
                      /\ Kept(g)

(***************************************************************************)
(* The claims about _prepare_mapping, stated on the dict a caller holds    *)
(* before its first call.                                                  *)
(***************************************************************************)

\* A position above every stop of the fields.
TopBit == 5

\* A field without a stop.
OpenEnded(e) == e.kind = "slice" /\ e.b = None

\* The bits a field claims: a bit i, the range [start, stop) (an absent start
\* is 0) of a pair, a slice or a nested block's _index_, and every bit from
\* its start on for a field without a stop.
EntryBits(e) ==
    LET start == IF e.a = None THEN 0 ELSE e.a IN
    IF e.kind = "int" THEN mask_for(e.a, e.a + 1)
    ELSE IF OpenEnded(e) THEN mask_for(start, TopBit)
    ELSE mask_for(start, e.b)

\* The bits claimed by the fields before position k of items.
RECURSIVE Claimed(_, _)
Claimed(items, k) ==
    IF k <= 1 THEN 0 ELSE Or(Claimed(items, k - 1), EntryBits(items[k - 1]))

\* Position k of items shares a bit with the fields before it.
Collides(items, k) == And(Claimed(items, k), EntryBits(items[k])) # 0

\* C11: resolution of a field set in which two entries share a bit raises
\* IndexError, and the mask the intersection error reports is the bits that
\* the first offending entry, in the order of the start bits, shares with the
\* bits claimed before it.
C11_OverlapRejection ==
    resolved = <<>> =>
        LET items == SortByStart(raw)
            r == _prepare_mapping(raw)
            offending == {k \in DOMAIN items : Collides(items, k)}
            first == CHOOSE k \in offending : \A j \in offending : k <= j
        IN offending # {} =>
              /\ r.err = "IndexError"
              /\ r.why = "intersection" =>
                    r.bits = And(Claimed(items, first), EntryBits(items[first]))

\* The open-ended entry of a resolved mapping is its last entry and has the
\* highest start.
OpenEndedLast(mapping) ==
    \A i \in DOMAIN mapping :
        OpenEnded(mapping[i]) =>
            /\ i = Len(mapping)
            /\ \A j \in DOMAIN mapping :
                  j # i => /\ ~OpenEnded(mapping[j])
                           /\ (IF mapping[j].a = None THEN 0 ELSE mapping[j].a)
                                < mapping[i].a

\* C12: resolution of a field set with an open-ended range and an entry that
\* sorts after it by start bit raises IndexError, whatever the order of the
\* declarations, and it is the error of a mapping after a non-ending slice
\* when the entries up to the open-ended one are disjoint; an accepted
\* mapping has at most one open-ended entry, and that one has the highest
\* start.
C12_OpenEndedOrdering ==
    resolved = <<>> =>
        LET items == SortByStart(raw)
            r == _prepare_mapping(raw)
            open == {k \in DOMAIN items : OpenEnded(items[k])}
            first == CHOOSE k \in open : \A j \in open : k <= j
        IN
        /\ (open # {} /\ \E k \in open : k < Len(items)) =>
              /\ r.err = "IndexError"
              /\ (\A k \in 1..first : ~Collides(items, k)) => r.why = "after non-ending"
        /\ r.err = "ok" =>
              /\ OpenEndedLast(r.mapping)
              /\ \A i \in DOMAIN r.mapping :
                    r.mapping[i].kind = "dict" => OpenEndedLast(r.mapping[i].sub)

\* C13: two calls of _prepare_mapping in a row on the very same dict end the
\* same way: the same resolved mapping, or the same error.
C13_ResolveTwice ==
    Len(resolved) = 2 => resolved[1] = resolved[2]

(***************************************************************************)
(* The claims about classes and construction.                              *)
(***************************************************************************)

\* The declarations that make the class of the root view of this state.
DeclsOfRoot ==
    {decl \in RootDecls :
        LET cls == RootClass(decl, <<>>, TRUE) IN
        /\ cls.err = "ok"
        /\ cls.size = classes[1].size
        /\ cls.mask = classes[1].mask}

\* C14: a class made with a size and no mask, by a class declaration or by
\* makecls, has the mask (1 << size) - 1, and a class made with a mask only
\* has the size bit_length(mask).
C14_SizeMaskDerivation ==
    \A decl \in DeclsOfRoot :
        LET size == decl[1]
            mask == IF decl[2] THEN decl[3] ELSE None
        IN
        /\ (size # None /\ mask = None) => classes[1].mask = Pow2(size) - 1
        /\ (size = None /\ mask # None) => classes[1].size = BitLength(mask)

\* C15: a view constructed from an integer x, of a class with a mask m, has
\* the value x & m.
C15_MaskOnConstruction ==
    \A c \in DOMAIN classes : \A x \in Operands \cup {5, 6} :
        classes[c].mask # None =>
            LET made == Append(views, [cls |-> c, val |-> InitValue(classes[c], x),
                                       parent |-> 0, off |-> 0])
            IN _value_(made, classes, Len(made)) = And(x, classes[c].mask)

(***************************************************************************)
(* The claims about + and -.                                               *)
(***************************************************************************)

\* The operands of + and -: small ones of both signs, and one wider than
\* every size.
Addends == -MaxInt - 1..MaxInt + 1

\* C16: for every view v with a configured size N and every integer k with
\* r = v.value() + k >= 0 and bit_length(r) > N, v + k returns the plain
\* integer r and leaves v unchanged, and v += k raises OverflowError and
\* leaves v unchanged.
C16_AdditionOverflow ==
    \A v \in DOMAIN views : \A k \in Addends :
        LET N == classes[views[v].cls].size
            r == _value_(views, classes, v) + k
            add == __add__(views, classes, v, k)
            iadd == __iadd__(views, classes, v, k)
        IN (N # None /\ r >= 0 /\ BitLength(r) > N) =>
              /\ add.err = "ok" /\ add.plain /\ add.ret = r /\ Kept(add)
              /\ iadd.err = "OverflowError" /\ Kept(iadd)

\* C17: for every view v and every integer k with r = v.value() + k >= 0 that
\* fits the configured size (bit_length(r) <= size, or v has no size), v + k
\* and v - (-k) return a view of v's class whose value is r, and after
\* v += k the value of v is r.
C17_AdditionThatFits ==
    \A v \in DOMAIN views : \A k \in Addends :
        LET N == classes[views[v].cls].size
            r == _value_(views, classes, v) + k
            add == __add__(views, classes, v, k)
            sub == __sub__(views, classes, v, -k)
            iadd == __iadd__(views, classes, v, k)
        IN (r >= 0 /\ (N = None \/ BitLength(r) <= N)) =>
              /\ \A w \in {add, sub} :
                    /\ w.err = "ok" /\ ~w.plain
                    /\ w.views[w.ret].cls = views[v].cls
                    /\ _value_(w.views, w.classes, w.ret) = r
              /\ iadd.err = "ok"
              /\ _value_(iadd.views, iadd.classes, v) = r

\* C18: for every view v and every integer k with v.value() - k < 0, v - k and
\* v -= k raise ValueError and leave v unchanged.
C18_NegativeResult ==
    \A v \in DOMAIN views : \A k \in Addends :
        LET sub == __sub__(views, classes, v, k)
            isub == __isub__(views, classes, v, k)
        IN _value_(views, classes, v) - k < 0 =>
              /\ sub.err = "ValueError" /\ Kept(sub)
              /\ isub.err = "ValueError" /\ Kept(isub)

(***************************************************************************)
(* The claims about ==.                                                    *)
(***************************************************************************)

\* byte_length(bit_width): the least number of bytes, one at least, that
\* holds bit_width bits.
byte_length(bit_width) ==
    CHOOSE n \in 1..bit_width + 1 :
        /\ 8 * n >= bit_width
        /\ n = 1 \/ 8 * (n - 1) < bit_width

\* The byte length of a view.
ByteLen(vs, cs, v) == byte_length(_bit_size_(vs, cs, v))

\* The resolved mapping of a view's class.
MappingOf(vs, cs, v) == cs[vs[v].cls].mapping

\* a == b, b a view
EqView(vs, cs, a, b) == __eq__(vs, cs, a, ViewObj(b))

\* The ints a view is compared with.
Comparands == {0, 1, 2, 3, WideValue}

\* C19: a view equals an int n iff its value is n; two views are equal iff
\* their values, their resolved mappings and their byte lengths are equal;
\* a == b is b == a; and a detached copy of a view compares as the view
\* does, on either side.
C19_Equality ==
    \A a \in DOMAIN views :
        /\ \A n \in Comparands :
              __eq__(views, classes, a, IntObj(n)) <=> _value_(views, classes, a) = n
        /\ \A b \in DOMAIN views :
              LET cp == __copy__(views, classes, a) IN
              /\ EqView(views, classes, a, b)
                   <=> /\ _value_(views, classes, a) = _value_(views, classes, b)
                       /\ MappingOf(views, classes, a) = MappingOf(views, classes, b)
                       /\ ByteLen(views, classes, a) = ByteLen(views, classes, b)
              /\ EqView(views, classes, a, b) <=> EqView(views, classes, b, a)
              /\ EqView(cp.views, cp.classes, cp.ret, b) <=> EqView(views, classes, a, b)
              /\ EqView(cp.views, cp.classes, b, cp.ret) <=> EqView(views, classes, b, a)

\* C19 happens: a linked child c equals a detached view of another class
\* that holds the same value, and differs from a third view that holds the
\* same value with another mapping.
C19_Witness ==
    \E c, d, e \in DOMAIN views :
        /\ views[c].parent # 0
        /\ views[d].parent = 0
        /\ views[d].cls # views[c].cls
        /\ EqView(views, classes, c, d)
        /\ _value_(views, classes, e) = _value_(views, classes, c)
        /\ MappingOf(views, classes, e) # MappingOf(views, classes, c)
        /\ ~EqView(views, classes, c, e)

\* A view with a mask or a mapping.
Shaped(vs, cs, v) == cs[vs[v].cls].mask # None \/ MappingOf(vs, cs, v) # <<>>

\* Two views of different shape: another configured size, another mask or
\* another mapping.
DifferentShape(vs, cs, a, b) ==
    \/ cs[vs[a].cls].size # cs[vs[b].cls].size
    \/ cs[vs[a].cls].mask # cs[vs[b].cls].mask
    \/ MappingOf(vs, cs, a) # MappingOf(vs, cs, b)

\* C20 as stated: a view with a mask or a mapping never equals a view of a
\* different shape that holds the same value.
C20_ShapeSensitive ==
    \A a, b \in DOMAIN views :
        (/\ Shaped(views, classes, a)
         /\ DifferentShape(views, classes, a, b)
         /\ _value_(views, classes, a) = _value_(views, classes, b))
        => /\ ~EqView(views, classes, a, b)
           /\ ~EqView(views, classes, b, a)

\* C20 amended: a view with a mask or a mapping never equals a view that
\* holds the same value with another resolved mapping or another byte
\* length; it equals every view that holds the same value with the same
\* mapping and the same byte length, whatever the sizes and the masks of the
\* two.
C20_ShapeSensitiveAmended ==
    \A a, b \in DOMAIN views :
        (/\ Shaped(views, classes, a)
         /\ _value_(views, classes, a) = _value_(views, classes, b))
        => IF \/ MappingOf(views, classes, a) # MappingOf(views, classes, b)
              \/ ByteLen(views, classes, a) # ByteLen(views, classes, b)
           THEN ~EqView(views, classes, a, b) /\ ~EqView(views, classes, b, a)
           ELSE EqView(views, classes, a, b) /\ EqView(views, classes, b, a)

\* C20 happens: a view a with a mask holds the same value as b and as c; b
\* has another size and another mask in the same number of bytes and equals
\* a; c takes another number of bytes and differs from a.
C20_Witness ==
    \E a, b, c \in DOMAIN views :
        /\ classes[views[a].cls].mask # None
        /\ _value_(views, classes, a) = _value_(views, classes, b)
        /\ _value_(views, classes, a) = _value_(views, classes, c)
        /\ classes[views[a].cls].size # classes[views[b].cls].size
        /\ classes[views[a].cls].mask # classes[views[b].cls].mask
        /\ ByteLen(views, classes, a) = ByteLen(views, classes, b)
        /\ EqView(views, classes, a, b)
        /\ ByteLen(views, classes, a) # ByteLen(views, classes, c)
        /\ ~EqView(views, classes, a, c)

(***************************************************************************)
(* Copies and hashes.                                                      *)
(***************************************************************************)

\* The values a copy is set to.
CopyValues == {-1, 0, 1, WideValue}

\* c = p[key] is a linked child; cp = copy.copy(c); c2 = p[key] fetched
\* again: c2 is of the class of c and hash(cp) == hash(c2); and once
\* cp._value_ = x made the value of cp differ from that of c2, the two
\* hashes differ.
HashOfCopy(p, key) ==
    LET c == __getitem__(views, classes, p, key) IN
    (c.err = "ok" /\ c.views[c.ret].parent # 0) =>
      LET cp == __copy__(c.views, c.classes, c.ret)
          c2 == __getitem__(cp.views, cp.classes, p, key)
      IN /\ c2.err = "ok"
         /\ c2.views[c2.ret].cls = c2.views[c.ret].cls
         /\ __hash__(c2.views, c2.classes, cp.ret) = __hash__(c2.views, c2.classes, c2.ret)
         /\ \A x \in CopyValues :
               LET w == _value_setter(c2.views, c2.classes, cp.ret, x) IN
               (/\ w.err = "ok"
                /\ _value_(w.views, w.classes, cp.ret) # _value_(w.views, w.classes, c2.ret))
               => __hash__(w.views, w.classes, cp.ret) # __hash__(w.views, w.classes, c2.ret)

RECURSIVE Root(_, _)
Root(vs, v) == IF vs[v].parent = 0 THEN v ELSE Root(vs, vs[v].parent)

\* The keys and the values of the writes to a copy, to its source and to
\* the ancestors of the source.
WriteKeys == {Index(0), Index(1), Slice(0, 2), Slice(1, None), Name("hi")}
WriteValues == {0, 1, 3}

\* The outcomes of the writes a caller can run on view u.
Writes(u) ==
    {__setitem__(views, classes, u, key, x) : key \in WriteKeys, x \in WriteValues}
    \cup {_value_setter(views, classes, u, x) : x \in WriteValues}
    \cup {__iadd__(views, classes, u, x) : x \in WriteValues}
    \cup {__isub__(views, classes, u, x) : x \in WriteValues}

\* A view made by copy.copy(v) or v[:]: SpecEq makes views 1 and 2 first.
IsCopy(d) == d > 2 /\ views[d].parent = 0

\* C22: copy.copy(v) and v[:] return a view without a link that holds the
\* value of v; a write to a copy, or to a view read from it, changes no view
\* outside the copy's own tree (its source and the ancestors of the source
\* keep their values), and a write to any view outside that tree (the source
\* or an ancestor among them) leaves the copy's value as it was.
C22_CopyDetaches ==
    /\ \A v \in DOMAIN views :
          \A cp \in {__copy__(views, classes, v),
                     __getitem__(views, classes, v, Slice(None, None))} :
              /\ cp.err = "ok"
              /\ cp.views[cp.ret].parent = 0
              /\ cp.views[cp.ret].cls = views[v].cls
              /\ _value_(cp.views, cp.classes, cp.ret) = _value_(views, classes, v)
              /\ \A i \in DOMAIN views :
                    _value_(cp.views, cp.classes, i) = _value_(views, classes, i)
    /\ \A d \in DOMAIN views :
          IsCopy(d) =>
            \A u \in DOMAIN views : \A w \in Writes(u) :
                IF Root(views, u) = d
                THEN \A x \in DOMAIN views :
                        Root(views, x) # d
                        => _value_(w.views, w.classes, x) = _value_(views, classes, x)
                ELSE _value_(w.views, w.classes, d) = _value_(views, classes, d)

\* C22 happens: a linked child and a copy of its class are alive; the copy
\* still holds 1 while the source reads 0 through its parent, which was
\* written after the copy was made.
C22_Witness ==
    \E c, d \in DOMAIN views :
        /\ IsCopy(d)
        /\ views[c].parent # 0
        /\ views[d].cls = views[c].cls
        /\ _value_(views, classes, c) = 0
        /\ _value_(views, classes, views[c].parent) = 0
        /\ _value_(views, classes, d) = 1

(***************************************************************************)
(* What every view holds.                                                  *)
(***************************************************************************)

\* C23: every view holds a non-negative value, however it was made and
\* whatever was written to it or to the views it is linked with.
C23_NonNegative == \A v \in DOMAIN views : _value_(views, classes, v) >= 0

(***************************************************************************)
(* Declared fields.                                                        *)
(***************************************************************************)

\* A nested block whose "_index_" is missing or is not an ascending pair of
\* non-negative ints.
Malformed(e) ==
    /\ e.kind = "dict"
    /\ \/ ~e.hasIndex
       \/ e.a < 0
       \/ e.b < 0
       \/ e.a >= e.b

\* C24: the class statement fails for every class body that holds a nested
\* block whose "_index_" is missing or is not an ascending pair of
\* non-negative ints: no class is made.
C24_MalformedBlockRejected ==
    (resolved # <<>> /\ \E i \in DOMAIN raw : Malformed(raw[i]))
    => resolved[1].err # "ok" /\ classes = <<>>

(***************************************************************************)
(* Range keys.                                                             *)
(***************************************************************************)

\* slice(a, b, step)
Stepped(a, b, step) == [Slice(a, b) EXCEPT !.step = step]

\* The range keys: every start and stop up to past the widest view, absent,
\* zero and negative ones among them, without and with a step.
RangeKeys ==
    {Slice(a, b) : a \in {None} \cup (-1..MaxBit + 2), b \in {None} \cup (0..MaxBit + 2)}
    \cup {Stepped(a, b, 1) : a \in {None, 0}, b \in {None, 2}}

\* The range key names bits of a view of that width: no step, a start (0
\* when absent) that is not negative and is strictly below the stop (the
\* width when absent).
NamesBits(key, width) ==
    LET start == IF key.a = None THEN 0 ELSE key.a
        stop == IF key.b = None THEN width ELSE key.b
    IN key.step = None /\ start >= 0 /\ start < stop

\* C25: v[key] and v[key] = x succeed only for a range key that names bits
\* of v; for every other range key they raise IndexError and no view
\* changes.
C25_RangeKeyValidation ==
    \A v \in DOMAIN views : \A key \in RangeKeys :
        LET valid == NamesBits(key, _bit_size_(views, classes, v))
            g == __getitem__(views, classes, v, key)
        IN /\ g.err = "ok" => valid
           /\ ~valid => /\ g.err = "IndexError"
                        /\ \A i \in DOMAIN views :
                              _value_(g.views, g.classes, i) = _value_(views, classes, i)
           /\ \A x \in 0..1 :
                 LET w == __setitem__(views, classes, v, key, x) IN
                 /\ w.err = "ok" => valid
                 /\ ~valid => /\ w.err = "IndexError"
                              /\ Values(w.views, w.classes) = Values(views, classes)

(***************************************************************************)
(* In-place bitwise operators on a child.                                  *)
(***************************************************************************)

\* c op= k left the child c = v[a:b] with the value new, restricted to the
\* mask of the class of c; the bits a..b-1 of v hold that value, and the other
\* bits of v are those of old_v.
WrittenThrough(w, v, c, a, b, new, old_v) ==
    LET value == And(new, w.classes[w.views[c].cls].mask) IN
    /\ w.err = "ok"
    /\ _value_(w.views, w.classes, c) = value
    /\ Shr(And(_value_(w.views, w.classes, v), mask_for(a, b)), a) = value
    /\ And(_value_(w.views, w.classes, v), Not(mask_for(a, b)))
         = And(old_v, Not(mask_for(a, b)))

\* C26: for every view v, every child c = v[a:b] and every int k, c &= k,
\* c |= k and c ^= k leave c with (old_c op k) restricted to the mask of c,
\* the bits a..b-1 of v with that value, and the other bits of v unchanged.
C26_BitwiseWriteThrough ==
    \A v \in DOMAIN views : \A r \in Ranges : \A k \in Operands :
        LET g == __getitem__(views, classes, v, Slice(r[1], r[2]))
            c == g.ret
            old_c == _value_(g.views, g.classes, c)
            old_v == _value_(views, classes, v)
        IN g.err = "ok" =>
             /\ WrittenThrough(__iand__(g.views, g.classes, c, k), v, c, r[1], r[2],
                               And(old_c, k), old_v)
             /\ WrittenThrough(__ior__(g.views, g.classes, c, k), v, c, r[1], r[2],
                               Or(old_c, k), old_v)
             /\ WrittenThrough(__ixor__(g.views, g.classes, c, k), v, c, r[1], r[2],
                               Xor(old_c, k), old_v)

(***************************************************************************)
(* The mask and the size of a class, and the values of its views.          *)
(***************************************************************************)

\* C27: a view of a class with a non-zero mask m never holds a bit outside
\* m: value() & ~m == 0.
C27_MaskInvariant ==
    \A v \in DOMAIN views :
        LET m == classes[views[v].cls].mask IN
        (m # None /\ m # 0) => And(_value_(views, classes, v), Not(m)) = 0

\* C27 happens: the root's class has the mask 0b101 and a child with a mask
\* of its own is linked to the root; the root holds 1, which only a write
\* leaves in it.
C27_Witness ==
    /\ classes[1].mask = 5
    /\ _value_(views, classes, 1) = 1
    /\ \E c \in DOMAIN views :
          /\ views[c].parent = 1
          /\ Truthy(classes[views[c].cls].mask)

\* C28: a view of a class with a configured size N never holds a value of
\* more than N bits: bit_length(value()) <= N.
C28_SizeInvariant ==
    \A v \in DOMAIN views :
        LET N == classes[views[v].cls].size IN
        Truthy(N) => BitLength(_value_(views, classes, v)) <= N

\* The bits start..stop-1 of x, as a number.
Bits(x, start, stop) ==
    IF start >= stop THEN 0 ELSE Shr(And(x, mask_for(start, stop)), start)

\* The range a field is declared with, on a view of that width: a bit i is
\* [i, i + 1); an absent start is 0 and an absent stop the width.
DeclaredStart(f) == IF f.a = None THEN 0 ELSE f.a
DeclaredStop(f, width) ==
    IF f.kind = "int" THEN f.a + 1
    ELSE IF f.b = None THEN width
    ELSE f.b

\* C29: for every class that was made, every object of it and every child
\* read from it, and every field f the class of the view declares, v[f]
\* returns a view whose value is the bits of v in the declared range of f.
C29_DeclaredFieldsReadable ==
    \A v \in DOMAIN views :
        LET mapping == classes[views[v].cls].mapping IN
        \A i \in DOMAIN mapping :
            LET f == mapping[i]
                g == __getitem__(views, classes, v, Name(f.name))
            IN /\ g.err = "ok"
               /\ _value_(g.views, g.classes, g.ret)
                    = Bits(_value_(views, classes, v), DeclaredStart(f),
                           DeclaredStop(f, _bit_size_(views, classes, v)))

(***************************************************************************)
(* Hash and equality.                                                      *)
(***************************************************************************)

\* C30: two views that are equal have the same hash.
C30_HashConsistentWithEq ==
    \A a, b \in DOMAIN views :
        EqView(views, classes, a, b)
        => __hash__(views, classes, a) = __hash__(views, classes, b)

====
